---- MODULE Spec2Model ----
(***************************************************************************)
(* Model of the bytecode assembler / disassembler / block-graph editor.    *)
(*                                                                         *)
(*   src/bytecode.py              Instr, Label, Block, Code                *)
(*                                (create_label, disassemble, assemble)    *)
(*   src/src/bytecode/instr.py    Instr with operand validation            *)
(*                                                                         *)
(* Python objects are modelled by a heap: a Block is an object id mapped   *)
(* to its label and its instruction list, Code._blocks is a list of ids    *)
(* and Code._block_map maps a label to an id, so that aliasing between the *)
(* list and the index is what the code makes it.  Labels are identity-only *)
(* objects: a label is a natural number drawn from a counter.              *)
(***************************************************************************)
EXTENDS Integers, Sequences, FiniteSets, TLC

VARIABLES
    blocks,      \* Code._blocks: sequence of Block object ids
    heap,        \* Block objects: id -> [label, instrs]
    block_map,   \* Code._block_map: label -> Block object id
    consts,      \* Code.consts
    code_obj,    \* Code.code_obj: [co_code, co_lnotab, co_firstlineno, co_consts]
    nextId,      \* allocation counter of Block() / Label()
    out,         \* the value returned by the last successful assemble()
    last,        \* the last call made: [op, err, kind]
    nsplit,      \* number of blocks created by create_label on this graph
    labelPos,    \* history: label -> index (in the flat instruction sequence)
                 \* of the first instruction of its block when first seen
    ins,         \* a high-level Instr object (instr.py):
                 \* [exists, name, opcode, arg, location]
    ilast,       \* the last call made on ins: [op, err]
    py311,       \* sys.version_info >= (3, 11)
    effect       \* the last pre_and_post_stack_effect(jump) call on ins:
                 \* [jump, net, pair], net = stack_effect(jump)

graphVars == <<blocks, heap, block_map, consts, code_obj, nextId, out, last,
               nsplit, labelPos>>

instrVars == <<ins, ilast, py311, effect>>

vars == <<graphVars, instrVars>>

-----------------------------------------------------------------------------
(* Bounds of the model *)

MaxBlocks == 2
MaxSplits == 2

-----------------------------------------------------------------------------
(* The opcode module (CPython, 3-byte instruction format) as far as the    *)
(* modelled programs use it.                                               *)

HAVE_ARGUMENT == 90

opmap ==
    [POP_TOP |-> 1, ROT_THREE |-> 3, DUP_TOP |-> 4, NOP |-> 9, RETURN_VALUE |-> 83,
     UNPACK_SEQUENCE |-> 92, FOR_ITER |-> 93, LOAD_CONST |-> 100,
     LOAD_NAME |-> 101, COMPARE_OP |-> 107, JUMP_FORWARD |-> 110,
     JUMP_ABSOLUTE |-> 113, POP_JUMP_IF_FALSE |-> 114, LOAD_GLOBAL |-> 116,
     LOAD_FAST |-> 124, CALL_FUNCTION |-> 131, LOAD_DEREF |-> 136,
     EXTENDED_ARG |-> 144, LIST_APPEND |-> 145]

OpNames == DOMAIN opmap

opname(op) == CHOOSE n \in OpNames : opmap[n] = op

IsOpcode(op) == \E n \in OpNames : opmap[n] = op

hasjrel == {93, 110}

hasjabs == {113, 114}

hasfree == {136}

haslocal == {124}

hasname == {101, 116}

hasconst == {100}

hascompare == {107}

-----------------------------------------------------------------------------
(* Values *)

None == [k |-> "none", v |-> 0]

IntArg(n) == [k |-> "int", v |-> n]

Label(l) == [k |-> "label", v |-> l]

isLabel(a) == a.k = "label"

\* Instr.__init__: lineno, name, arg; _size and _op are derived from them
Instr(lineno, name, arg) == [lineno |-> lineno, name |-> name, arg |-> arg]

size(instr) == IF instr.arg # None THEN 3 ELSE 1

op(instr) == opmap[instr.name]

\* replace_arg that stores the operand in the receiver
replace_arg_InPlace(instr, arg) ==
    [self |-> Instr(instr.lineno, instr.name, arg),
     new |-> Instr(instr.lineno, instr.name, arg)]

\* Instr.replace_arg: a new Instr; the receiver is left as it was.
\* Returns the pair (receiver after the call, new object).
replace_arg(instr, arg) ==
    [self |-> instr, new |-> Instr(instr.lineno, instr.name, arg)]

-----------------------------------------------------------------------------
(* Sequence helpers: Python list slicing with 0-based indices *)

SliceFrom(s, index) ==
    IF index >= Len(s) THEN << >> ELSE SubSeq(s, index + 1, Len(s))

SliceTo(s, index) ==
    IF index >= Len(s) THEN s ELSE SubSeq(s, 1, index)

\* InsertAt that inserts one position early
InsertAt_Early(s, pos, x) ==
    SliceTo(s, pos - 1) \o <<x>> \o SliceFrom(s, pos - 1)

InsertAt(s, pos, x) ==
    SliceTo(s, pos) \o <<x>> \o SliceFrom(s, pos)

-----------------------------------------------------------------------------
(* The graph: the fields of a Code object and the Block objects it reaches *)

FirstId == 1

Graph(bl, hp, bm, nx) ==
    [blocks |-> bl, heap |-> hp, block_map |-> bm, nextId |-> nx]

CurGraph == Graph(blocks, heap, block_map, nextId)

\* Block.__init__: a new object with a fresh Label and a copy of the list
Block(g, instructions) ==
    [g EXCEPT !.heap = [i \in DOMAIN g.heap \cup {g.nextId} |->
                          IF i = g.nextId
                          THEN [label |-> g.nextId, instrs |-> instructions]
                          ELSE g.heap[i]],
              !.nextId = g.nextId + 1]

\* the id of the object Block(g, ...) has just allocated
NewId(g) == g.nextId

\* Code.__init__: _block_map = dict((block.label, block) for block in blocks)
CodeInit(bl, hp, nx) ==
    Graph(bl, hp,
          [l \in {hp[bl[i]].label : i \in 1..Len(bl)} |->
              LET js == {i \in 1..Len(bl) : hp[bl[i]].label = l}
                  j == CHOOSE i \in js : \A i2 \in js : i2 <= i
              IN bl[j]],
          nx)

\* list.index(block): the position (0-based) of the first element that is the
\* object or compares equal to it. Block is a list subclass that does not
\* define __eq__: two blocks are equal when their instruction lists are.
ListIndex(g, id) ==
    LET eq == {i \in 1..Len(g.blocks) :
                  g.blocks[i] = id
                  \/ g.heap[g.blocks[i]].instrs = g.heap[id].instrs}
    IN IF eq = {} THEN -1
       ELSE (CHOOSE i \in eq : \A i2 \in eq : i <= i2) - 1

PosRef(n) == [k |-> "pos", v |-> n]

Return(g, ret) == [g |-> g, ret |-> ret, err |-> "none"]

Raise(g, err) == [g |-> g, ret |-> -1, err |-> err]

\* create_label, first part: the position (0-based) in _blocks of the block
\* the caller names by Label or by position: [err, block_index]
ResolveBlockIndex(g, block_index) ==
    IF isLabel(block_index)
    THEN IF block_index.v \notin DOMAIN g.block_map
         THEN [err |-> "KeyError", block_index |-> -1]
         ELSE LET i == ListIndex(g, g.block_map[block_index.v])
              IN IF i < 0 THEN [err |-> "ValueError", block_index |-> -1]
                 ELSE [err |-> "none", block_index |-> i]
    ELSE IF block_index.v < 0
         THEN [err |-> "ValueError", block_index |-> -1]
         ELSE [err |-> "none", block_index |-> block_index.v]

\* SplitAt with "if not instructions: raise" placed after the mutation
SplitAt_LateCheck(g, block_index, index) ==
    IF index < 0 THEN Raise(g, "ValueError")
    ELSE IF block_index >= Len(g.blocks) THEN Raise(g, "IndexError")
    ELSE
    LET block == g.blocks[block_index + 1]
        instructions == SliceFrom(g.heap[block].instrs, index)
        g1 == Block(g, instructions)
        block2 == NewId(g)
        label2 == g1.heap[block2].label
        g2 == [g1 EXCEPT !.blocks = InsertAt(g1.blocks, block_index + 1, block2)]
        g3 == [g2 EXCEPT !.block_map =
                  [l \in DOMAIN g2.block_map \cup {label2} |->
                      IF l = label2 THEN block2 ELSE g2.block_map[l]]]
        g4 == [g3 EXCEPT !.heap[block].instrs = SliceTo(@, index)]
    IN IF index = 0 THEN Return(g, g.heap[block].label)
       ELSE IF instructions = << >> THEN Raise(g4, "ValueError")
       ELSE Return(g4, label2)

\* SplitAt that does not enter the new block in _block_map
SplitAt_NoRegister(g, block_index, index) ==
    IF index < 0 THEN Raise(g, "ValueError")
    ELSE IF block_index >= Len(g.blocks) THEN Raise(g, "IndexError")
    ELSE
    LET block == g.blocks[block_index + 1]
        instructions == SliceFrom(g.heap[block].instrs, index)
        g1 == Block(g, instructions)
        block2 == NewId(g)
        g2 == [g1 EXCEPT !.blocks = InsertAt(g1.blocks, block_index + 1, block2)]
        g4 == [g2 EXCEPT !.heap[block].instrs = SliceTo(@, index)]
    IN IF index = 0 THEN Return(g, g.heap[block].label)
       ELSE IF instructions = << >> THEN Raise(g, "ValueError")
       ELSE Return(g4, g1.heap[block2].label)

\* create_label, second part, from "if index < 0" on, block_index a position
SplitAt(g, block_index, index) ==
    IF index < 0 THEN Raise(g, "ValueError")
    ELSE IF block_index >= Len(g.blocks) THEN Raise(g, "IndexError")
    ELSE
    LET block == g.blocks[block_index + 1]
    IN
    IF index = 0 THEN Return(g, g.heap[block].label)
    ELSE
    LET instructions == SliceFrom(g.heap[block].instrs, index)
    IN
    IF instructions = << >> THEN Raise(g, "ValueError")
    ELSE
    LET g1 == Block(g, instructions)
        block2 == NewId(g)
        label2 == g1.heap[block2].label
        \* self._blocks.insert(block_index+1, block2)
        g2 == [g1 EXCEPT !.blocks = InsertAt(g1.blocks, block_index + 1, block2)]
        \* self._block_map[block2.label] = block2
        g3 == [g2 EXCEPT !.block_map =
                  [l \in DOMAIN g2.block_map \cup {label2} |->
                      IF l = label2 THEN block2 ELSE g2.block_map[l]]]
        \* del block[index:]
        g4 == [g3 EXCEPT !.heap[block].instrs = SliceTo(@, index)]
    IN Return(g4, label2)

\* Code.create_label(block_index, index): [g, ret, err]
\* g is the graph when the call returns or raises.
create_label(g, block_index, index) ==
    LET r == ResolveBlockIndex(g, block_index)
    IN IF r.err # "none" THEN Raise(g, r.err)
       ELSE SplitAt(g, r.block_index, index)

-----------------------------------------------------------------------------
(* Observations of a graph *)

BlockInstrs(g, i) == g.heap[g.blocks[i]].instrs

BlockLabel(g, i) == g.heap[g.blocks[i]].label

RECURSIVE FlatFrom(_, _)
FlatFrom(g, i) ==
    IF i > Len(g.blocks) THEN << >>
    ELSE BlockInstrs(g, i) \o FlatFrom(g, i + 1)

\* all instructions of the graph in iteration order
Flat(g) == FlatFrom(g, 1)

RECURSIVE StartFrom(_, _)
StartFrom(g, i) ==
    IF i <= 1 THEN 0 ELSE StartFrom(g, i - 1) + Len(BlockInstrs(g, i - 1))

\* index in Flat(g) of the first instruction of the i-th block
StartIndex(g, i) == StartFrom(g, i)

-----------------------------------------------------------------------------
(* struct.pack: the conversions to bytes *)

\* struct.pack('<B', op)
pack_B(o) == <<o>>

\* struct.pack('<BH', op, arg): 16-bit little-endian operand;
\* struct.error when the operand is outside 0..65535
InRangeH(n) == 0 <= n /\ n <= 65535

pack_BH(o, n) == <<o, n % 256, n \div 256>>

\* struct.pack('Bb', doff, dlineno): unsigned byte, signed byte
pack_Bb(doff, dlineno) == <<doff, dlineno % 256>>

\* Instr.assemble
InstrAssembleFails(instr) ==
    instr.arg # None /\ ~(instr.arg.k = "int" /\ InRangeH(instr.arg.v))

InstrAssemble(instr) ==
    IF instr.arg # None THEN pack_BH(op(instr), instr.arg.v)
    ELSE pack_B(op(instr))

-----------------------------------------------------------------------------
(* Code.assemble *)

\* blocks = [(block.label, list(block)) for block in self], flattened:
\* each entry remembers the Block object and position it was copied from
RECURSIVE Entries(_, _, _)
Entries(g, p, i) ==
    IF p > Len(g.blocks) THEN << >>
    ELSE IF i > Len(BlockInstrs(g, p)) THEN Entries(g, p + 1, 1)
    ELSE <<[id |-> g.blocks[p], i |-> i, instr |-> BlockInstrs(g, p)[i]]>>
         \o Entries(g, p, i + 1)

RECURSIVE SizeSum(_)
SizeSum(instrs) ==
    IF instrs = << >> THEN 0 ELSE size(Head(instrs)) + SizeSum(Tail(instrs))

RECURSIVE OffsetFrom(_, _)
OffsetFrom(g, p) ==
    IF p <= 1 THEN 0
    ELSE OffsetFrom(g, p - 1) + SizeSum(BlockInstrs(g, p - 1))

\* "find targets": targets[label] = offset of the block; a label carried by
\* several blocks keeps the offset of the last one
Targets(g) ==
    [l \in {BlockLabel(g, p) : p \in 1..Len(g.blocks)} |->
        LET ps == {p \in 1..Len(g.blocks) : BlockLabel(g, p) = l}
        IN OffsetFrom(g, CHOOSE p \in ps : \A q \in ps : q <= p)]

\* TargetOff that leaves the size of the jump out of a relative offset
TargetOff_NoSize(instr, offset, targets) ==
    IF op(instr) \in hasjrel
    THEN targets[instr.arg.v] - offset
    ELSE targets[instr.arg.v]

\* the resolved operand of a jump: "replace targets with offsets"
TargetOff(instr, offset, targets) ==
    IF op(instr) \in hasjrel
    THEN targets[instr.arg.v] - (offset + size(instr))
    ELSE targets[instr.arg.v]

\* the second loop of assemble over the entries from position k on.
\* acc = [code_str, linenos, touched, err]; touched holds, for every
\* instruction object visited, what the object is after the visit.
RECURSIVE AsmLoop(_, _, _, _, _)
AsmLoop(es, k, offset, targets, acc) ==
    IF k > Len(es) THEN acc
    ELSE
    LET e == es[k]
        instr0 == e.instr
        needs == isLabel(instr0.arg)
    IN
    IF needs /\ instr0.arg.v \notin DOMAIN targets
    THEN [acc EXCEPT !.err = "KeyError"]
    ELSE
    LET rep == IF needs
               THEN replace_arg(instr0, IntArg(TargetOff(instr0, offset, targets)))
               ELSE [self |-> instr0, new |-> instr0]
        instr == rep.new
        acc1 == [acc EXCEPT !.touched =
                    Append(@, [id |-> e.id, i |-> e.i, instr |-> rep.self])]
    IN
    IF InstrAssembleFails(instr)
    THEN [acc1 EXCEPT !.err = "struct.error"]
    ELSE AsmLoop(es, k + 1, offset + size(instr), targets,
                 [acc1 EXCEPT !.code_str = @ \o InstrAssemble(instr),
                              !.linenos = Append(@, <<offset, instr.lineno>>)])

\* LnotabEntry whose fillers carry the largest signed byte
RECURSIVE LnotabEntry_Filler127(_, _)
LnotabEntry_Filler127(doff, dlineno) ==
    IF doff > 255 THEN <<255, 48>> \o LnotabEntry_Filler127(doff - 255, dlineno)
    ELSE IF dlineno < -127
    THEN pack_Bb(0, -127) \o LnotabEntry_Filler127(doff, dlineno - (-127))
    ELSE IF dlineno > 126
    THEN pack_Bb(0, 127) \o LnotabEntry_Filler127(doff, dlineno - 126)
    ELSE IF doff # 0 \/ dlineno # 0 THEN pack_Bb(doff, dlineno)
    ELSE << >>

\* the entries appended to lnotab for one (offset, lineno) of linenos
RECURSIVE LnotabEntry(_, _)
LnotabEntry(doff, dlineno) ==
    IF doff > 255 THEN <<255, 48>> \o LnotabEntry(doff - 255, dlineno)
    ELSE IF dlineno < -127
    THEN pack_Bb(0, -127) \o LnotabEntry(doff, dlineno - (-127))
    ELSE IF dlineno > 126
    THEN pack_Bb(0, 126) \o LnotabEntry(doff, dlineno - 126)
    ELSE IF doff # 0 \/ dlineno # 0 THEN pack_Bb(doff, dlineno)
    ELSE << >>

RECURSIVE Lnotab(_, _, _, _)
Lnotab(linenos, k, old_offset, old_lineno) ==
    IF k > Len(linenos) THEN << >>
    ELSE LnotabEntry(linenos[k][1] - old_offset, linenos[k][2] - old_lineno)
         \o Lnotab(linenos, k + 1, linenos[k][1], linenos[k][2])

\* the Block objects after the loop visited the instruction objects in touched
HeapAfter(g, touched) ==
    [id \in DOMAIN g.heap |->
        [g.heap[id] EXCEPT !.instrs =
            [i \in 1..Len(g.heap[id].instrs) |->
                IF \E t \in 1..Len(touched) :
                      touched[t].id = id /\ touched[t].i = i
                THEN LET t == CHOOSE t \in 1..Len(touched) :
                                 touched[t].id = id /\ touched[t].i = i
                     IN touched[t].instr
                ELSE g.heap[id].instrs[i]]]]

CodeType(co_code, co_consts, co_firstlineno, co_lnotab) ==
    [co_code |-> co_code, co_lnotab |-> co_lnotab,
     co_firstlineno |-> co_firstlineno, co_consts |-> co_consts]

\* Code.assemble(): [g, consts, err, code]
\* g and consts are the graph and the literal pool when the call returns or
\* raises, code is the code object returned.
assemble(g, cobj, cs) ==
    LET acc == AsmLoop(Entries(g, 1, 1), 1, 0, Targets(g),
                       [code_str |-> << >>, linenos |-> << >>,
                        touched |-> << >>, err |-> "none"])
        g1 == [g EXCEPT !.heap = HeapAfter(g, acc.touched)]
    IN [g |-> g1, consts |-> cs, err |-> acc.err,
        code |-> IF acc.err # "none" THEN cobj
                 ELSE CodeType(acc.code_str, cs, cobj.co_firstlineno,
                               Lnotab(acc.linenos, 1, 0, cobj.co_firstlineno))]

-----------------------------------------------------------------------------
(* Code.disassemble *)

\* a signed byte of co_lnotab
SignedByte(b) == IF b >= 128 THEN b - 256 ELSE b

\* dis.findlinestarts(code_obj) of the standard library, for a line table
\* whose line increments are signed bytes (the format assemble() packs with
\* 'Bb'): the (offset, lineno) pairs it yields from entry k on.
\* have = FALSE stands for lastlineno = None.
RECURSIVE FindLineStarts(_, _, _, _, _, _)
FindLineStarts(lnotab, k, addr, lineno, have, lastlineno) ==
    IF 2 * k > Len(lnotab)
    THEN (IF ~have \/ lineno # lastlineno THEN {<<addr, lineno>>} ELSE {})
    ELSE
    LET byte_incr == lnotab[2 * k - 1]
        line_incr == SignedByte(lnotab[2 * k])
        yield == byte_incr # 0 /\ (~have \/ lineno # lastlineno)
    IN (IF yield THEN {<<addr, lineno>>} ELSE {})
       \cup FindLineStarts(lnotab, k + 1,
                           IF byte_incr # 0 THEN addr + byte_incr ELSE addr,
                           lineno + line_incr,
                           have \/ yield,
                           IF yield THEN lineno ELSE lastlineno)

\* line_starts = dict(dis.findlinestarts(code_obj))
LineStarts(cobj) ==
    LET pairs == FindLineStarts(cobj.co_lnotab, 1, 0, cobj.co_firstlineno,
                                FALSE, 0)
    IN [a \in {pr[1] : pr \in pairs} |->
          (CHOOSE pr \in pairs : pr[1] = a)[2]]

\* Instr.disassemble(lineno, code, offset): [err, instr]
InstrDisassemble(lineno, code, offset) ==
    LET o == code[offset + 1]
    IN IF ~IsOpcode(o) THEN [err |-> "KeyError", instr |-> Instr(lineno, "NOP", None)]
       ELSE IF o >= HAVE_ARGUMENT
       THEN (IF offset + 3 > Len(code)
             THEN [err |-> "IndexError", instr |-> Instr(lineno, "NOP", None)]
             ELSE [err |-> "none",
                   instr |-> Instr(lineno, opname(o),
                                   IntArg(code[offset + 2] + code[offset + 3] * 256))])
       ELSE [err |-> "none", instr |-> Instr(lineno, opname(o), None)]

\* Instr.get_jump_target(instr_offset): -1 stands for None
get_jump_target(instr, instr_offset) ==
    IF op(instr) \in hasjrel THEN instr_offset + size(instr) + instr.arg.v
    ELSE IF op(instr) \in hasjabs THEN instr.arg.v
    ELSE -1

\* "find block starts": the first loop of disassemble from offset on.
\* acc = [instructions, block_starts, err]
RECURSIVE Decode(_, _, _, _, _)
Decode(code, line_starts, offset, lineno, acc) ==
    IF offset >= Len(code) THEN acc
    ELSE
    LET d == InstrDisassemble(lineno, code, offset)
    IN IF d.err # "none" THEN [acc EXCEPT !.err = d.err]
       ELSE
       LET lineno1 == IF offset \in DOMAIN line_starts
                      THEN line_starts[offset] ELSE lineno
           instr == Instr(lineno1, d.instr.name, d.instr.arg)
           target == get_jump_target(instr, offset)
       IN Decode(code, line_starts, offset + size(instr), lineno1,
                 [acc EXCEPT !.instructions = Append(@, instr),
                             !.block_starts =
                                 IF target # -1 THEN @ \cup {target} ELSE @])

\* SplitBlocks that also opens a block at a target offset of 0
RECURSIVE SplitBlocks_NoZeroGuard(_, _, _, _, _)
SplitBlocks_NoZeroGuard(instructions, k, offset, block_starts, acc) ==
    IF k > Len(instructions) THEN acc
    ELSE
    LET instr == instructions[k]
        new == offset \in block_starts
        acc1 == IF new THEN Append(acc, [offset |-> offset, instrs |-> << >>])
                ELSE acc
        n == Len(acc1)
    IN SplitBlocks_NoZeroGuard(instructions, k + 1, offset + size(instr),
                               block_starts,
                               [acc1 EXCEPT ![n].instrs = Append(@, instr)])

\* "split instructions in blocks": the lists of the blocks, in order, and the
\* offset each block was registered at in the local block_map
RECURSIVE SplitBlocks(_, _, _, _, _)
SplitBlocks(instructions, k, offset, block_starts, acc) ==
    IF k > Len(instructions) THEN acc
    ELSE
    LET instr == instructions[k]
        new == offset # 0 /\ offset \in block_starts
        acc1 == IF new THEN Append(acc, [offset |-> offset, instrs |-> << >>])
                ELSE acc
        n == Len(acc1)
    IN SplitBlocks(instructions, k + 1, offset + size(instr), block_starts,
                   [acc1 EXCEPT ![n].instrs = Append(@, instr)])

\* "replace jump targets with blocks" for the list of one block that starts at
\* offset: [err, instrs]. labelAt maps a block offset to the block's label.
RECURSIVE ReplaceTargets(_, _, _, _)
ReplaceTargets(instrs, k, offset, labelAt) ==
    IF k > Len(instrs) THEN [err |-> "none", instrs |-> instrs]
    ELSE
    LET target == get_jump_target(instrs[k], offset)
    IN IF target # -1 /\ target \notin DOMAIN labelAt
       THEN [err |-> "KeyError", instrs |-> instrs]
       ELSE ReplaceTargets(
                IF target # -1
                THEN [instrs EXCEPT ![k] =
                         replace_arg(instrs[k], Label(labelAt[target])).new]
                ELSE instrs,
                k + 1, offset + size(instrs[k]), labelAt)

\* Code.disassemble(code_obj): [err, g, consts]; the Block objects of the new
\* Code get the ids (and labels) from nx on.
disassemble(cobj, nx) ==
    LET dec == Decode(cobj.co_code, LineStarts(cobj), 0, cobj.co_firstlineno,
                      [instructions |-> << >>, block_starts |-> {},
                       err |-> "none"])
        parts == SplitBlocks(dec.instructions, 1, 0, dec.block_starts,
                             <<[offset |-> 0, instrs |-> << >>]>>)
        n == Len(parts)
        labelAt == [o \in {parts[p].offset : p \in 1..n} |->
                      nx + (CHOOSE p \in 1..n : parts[p].offset = o) - 1]
        rep == [p \in 1..n |->
                  ReplaceTargets(parts[p].instrs, 1, parts[p].offset, labelAt)]
        none == Graph(<< >>, << >>, << >>, nx)
    IN IF dec.err # "none"
       THEN [err |-> dec.err, g |-> none, consts |-> << >>]
       ELSE IF Len(parts[n].instrs) = 0
       THEN [err |-> "AssertionError", g |-> none, consts |-> << >>]
       ELSE IF \E p \in 1..n : rep[p].err # "none"
       THEN [err |-> "KeyError", g |-> none, consts |-> << >>]
       ELSE [err |-> "none",
             g |-> CodeInit([p \in 1..n |-> nx + p - 1],
                            [id \in nx..(nx + n - 1) |->
                                [label |-> id, instrs |-> rep[id - nx + 1].instrs]],
                            nx + n),
             consts |-> cobj.co_consts]

-----------------------------------------------------------------------------
(* instr.py: the high-level Instr and its operand validation *)

\* Python integers are unbounded: an integer is held as <<high, low>> with
\* value high * 65536 + low and 0 <= low < 65536
PyInt(n) == <<n \div 65536, n % 65536>>

\* a <= b on Python integers
PyLe(a, b) == a[1] < b[1] \/ (a[1] = b[1] /\ a[2] <= b[2])

\* the value of a Python integer that fits the machine word
PyToInt(a) == a[1] * 65536 + a[2]

\* Python values passed as name, arg, opcode or lineno: [t, v] with t the
\* type and v the value (a Python integer for the numbers, a string for a
\* str used as a name, PyInt(0) where the value does not matter)
Val(t, n) == [t |-> t, v |-> PyInt(n)]

\* the str s
Str(s) == [t |-> "str", v |-> s]

\* a name that is not a str
NotStr == [t |-> "int", v |-> ""]

\* the int 2147483647 + 1
TooBig == [t |-> "int", v |-> <<32768, 0>>]

UNSET == Val("UNSET", 0)

PyNone == Val("None", 0)

\* isinstance(x, int): bool, the IntEnum Compare and _UNSET derive from int
isinstance_int(x) == x.t \in {"int", "bool", "Compare", "UNSET"}

\* _check_arg_int without the range test
_check_arg_int_NoRange(arg) ==
    IF ~isinstance_int(arg) THEN "TypeError" ELSE "none"

\* _check_arg_int(arg, name): the error raised, "none" if none
_check_arg_int(arg) ==
    IF ~isinstance_int(arg) THEN "TypeError"
    ELSE IF ~(PyLe(PyInt(0), arg.v) /\ PyLe(arg.v, PyInt(2147483647)))
    THEN "ValueError"
    ELSE "none"

\* BaseInstr._has_jump(opcode)
_has_jump(opcode) == opcode \in hasjrel \/ opcode \in hasjabs

\* Instr._check_arg(name, opcode, arg): the error raised, "none" if none
_check_arg(name, opcode, arg) ==
    IF name = "EXTENDED_ARG" THEN "ValueError"
    ELSE IF opcode >= HAVE_ARGUMENT /\ arg = UNSET THEN "ValueError"
    ELSE IF opcode < HAVE_ARGUMENT /\ arg # UNSET THEN "ValueError"
    ELSE IF _has_jump(opcode)
    THEN (IF arg.t \notin {"Label", "BasicBlock"} THEN "TypeError" ELSE "none")
    ELSE IF opcode \in hasfree
    THEN (IF arg.t \notin {"CellVar", "FreeVar"} THEN "TypeError" ELSE "none")
    ELSE IF opcode \in haslocal \/ opcode \in hasname
    THEN (IF py311 /\ name = "LOAD_GLOBAL"
          THEN (IF arg.t # "tuple_bool_str" THEN "TypeError" ELSE "none")
          ELSE IF arg.t # "str" THEN "TypeError" ELSE "none")
    ELSE IF opcode \in hasconst
    THEN (IF arg.t = "Label" THEN "ValueError"
          ELSE IF arg.t = "BasicBlock" THEN "ValueError"
          ELSE "none")
    ELSE IF opcode \in hascompare
    THEN (IF arg.t # "Compare" THEN "TypeError" ELSE "none")
    ELSE IF opcode >= HAVE_ARGUMENT THEN _check_arg_int(arg)
    ELSE "none"

\* _set that stores the name before it validates the operand
_set_NameFirst(self, name, arg) ==
    IF name.t # "str" THEN [self |-> self, err |-> "TypeError"]
    ELSE IF name.v \notin OpNames THEN [self |-> self, err |-> "ValueError"]
    ELSE
    LET opcode == opmap[name.v]
        e == _check_arg(name.v, opcode, arg)
    IN IF e # "none"
       THEN [self |-> [self EXCEPT !.name = name.v], err |-> e]
       ELSE [self |-> [self EXCEPT !.name = name.v, !.opcode = opcode,
                                   !.arg = arg],
             err |-> "none"]

\* BaseInstr._set(name, arg) on the object self: [self, err]
\* self is the object when the call returns or raises.
_set(self, name, arg) ==
    IF name.t # "str" THEN [self |-> self, err |-> "TypeError"]
    ELSE IF name.v \notin OpNames THEN [self |-> self, err |-> "ValueError"]
    ELSE
    LET opcode == opmap[name.v]
        e == _check_arg(name.v, opcode, arg)
    IN IF e # "none" THEN [self |-> self, err |-> e]
       ELSE [self |-> [self EXCEPT !.name = name.v, !.opcode = opcode,
                                   !.arg = arg],
             err |-> "none"]

\* _check_location(location, location_name, min_value)
_check_location(location, min_value) ==
    IF location = PyNone THEN "none"
    ELSE IF ~isinstance_int(location) THEN "TypeError"
    ELSE IF ~PyLe(PyInt(min_value), location.v) THEN "ValueError"
    ELSE "none"

\* InstrLocation(lineno, end_lineno, col_offset, end_col_offset) for the
\* locations with a line only, InstrLocation(lineno, None, None, None):
\* [loc, err]
InstrLocation(lineno) ==
    LET e == _check_location(lineno, IF py311 THEN 0 ELSE 1)
    IN [loc |-> [lineno |-> lineno, end_lineno |-> PyNone,
                 col_offset |-> PyNone, end_col_offset |-> PyNone],
        err |-> e]

NoLocation == [lineno |-> UNSET, end_lineno |-> PyNone,
               col_offset |-> PyNone, end_col_offset |-> PyNone]

\* no Instr object
NoInstr ==
    [exists |-> FALSE, name |-> "", opcode |-> 0, arg |-> UNSET,
     location |-> NoLocation]

\* BaseInstr.__init__(name, arg, lineno=lineno): [self, err]; when it raises
\* no object comes to exist
InstrInit(name, arg, lineno) ==
    LET r == _set([NoInstr EXCEPT !.exists = TRUE], name, arg)
    IN IF r.err # "none" THEN [self |-> NoInstr, err |-> r.err]
       ELSE IF lineno = UNSET
       THEN [self |-> [r.self EXCEPT !.location = NoLocation], err |-> "none"]
       ELSE LET l == InstrLocation(lineno)
            IN IF l.err # "none" THEN [self |-> NoInstr, err |-> l.err]
               ELSE [self |-> [r.self EXCEPT !.location = l.loc],
                     err |-> "none"]

\* an InstrLocation with end line and columns: lines 1..2, columns 0..3
DetailedLocation ==
    [lineno |-> Val("int", 1), end_lineno |-> Val("int", 2),
     col_offset |-> Val("int", 0), end_col_offset |-> Val("int", 3)]

\* BaseInstr.__init__(name, arg, location=location) for an InstrLocation
\* object location: [self, err]
InstrInitLocation(name, arg, location) ==
    LET r == _set([NoInstr EXCEPT !.exists = TRUE], name, arg)
    IN IF r.err # "none" THEN [self |-> NoInstr, err |-> r.err]
       ELSE [self |-> [r.self EXCEPT !.location = location], err |-> "none"]

\* BaseInstr.lineno setter: [self, err]
SetLinenoOf(self, lineno) ==
    LET loc == self.location
    IN IF /\ loc # NoLocation
          /\ \/ loc.end_lineno # PyNone
             \/ loc.col_offset # PyNone
             \/ loc.end_col_offset # PyNone
       THEN [self |-> self, err |-> "RuntimeError"]
       ELSE IF lineno = UNSET
       THEN [self |-> [self EXCEPT !.location = NoLocation], err |-> "none"]
       ELSE LET l == InstrLocation(lineno)
            IN IF l.err # "none" THEN [self |-> self, err |-> l.err]
               ELSE [self |-> [self EXCEPT !.location = l.loc], err |-> "none"]

\* the values of the jump parameter
JumpValues == {"None", "True", "False"}

\* dis.stack_effect(opcode, oparg, jump) of the standard library for the
\* opcodes of opmap; oparg is ignored by the opcodes without operand
dis_stack_effect(opcode, oparg, jump) ==
    LET n == opname(opcode)
    IN IF n \in {"POP_TOP", "RETURN_VALUE", "COMPARE_OP", "POP_JUMP_IF_FALSE",
                 "LIST_APPEND"}
       THEN -1
       ELSE IF n \in {"NOP", "ROT_THREE", "JUMP_FORWARD", "JUMP_ABSOLUTE",
                      "EXTENDED_ARG"}
       THEN 0
       ELSE IF n \in {"DUP_TOP", "LOAD_CONST", "LOAD_NAME", "LOAD_FAST",
                      "LOAD_DEREF"}
       THEN 1
       ELSE IF n = "LOAD_GLOBAL" THEN (IF py311 THEN (oparg % 2) + 1 ELSE 1)
       ELSE IF n = "UNPACK_SEQUENCE" THEN oparg - 1
       ELSE IF n = "CALL_FUNCTION" THEN -oparg
       ELSE IF jump = "True" THEN -1 ELSE 1

\* BaseInstr.stack_effect(jump)
stack_effect(self, jump) ==
    LET arg == IF self.opcode < HAVE_ARGUMENT THEN 0
               ELSE IF self.name = "LOAD_GLOBAL"
                       /\ self.arg.t \in {"tuple_bool_str", "tuple_str_str"}
               THEN PyToInt(self.arg.v)
               ELSE IF ~isinstance_int(self.arg) \/ self.opcode \in hasconst
               THEN 0
               ELSE PyToInt(self.arg.v)
    IN dis_stack_effect(self.opcode, arg, jump)

\* the entries of STATIC_STACK_EFFECTS for the opcodes of opmap, and the
\* entry spelled "ROT_THRE" in the source, which is the name of no opcode
STATIC_STACK_EFFECTS ==
    [COMPARE_OP |-> <<-2, 1>>, DUP_TOP |-> <<-1, 2>>, ROT_THRE |-> <<-3, 3>>]

DynamicNames == {"LIST_APPEND", "FOR_ITER", "UNPACK_SEQUENCE", "CALL_FUNCTION"}

\* DYNAMIC_STACK_EFFECTS with an append that pushes back what it popped
DYNAMIC_STACK_EFFECTS_AppendKeeps(n, eff, arg, jump) ==
    IF n = "LIST_APPEND" THEN <<-PyToInt(arg.v), PyToInt(arg.v)>>
    ELSE IF n = "FOR_ITER" THEN (IF jump = "True" THEN <<eff, 0>> ELSE <<-1, 2>>)
    ELSE IF n = "UNPACK_SEQUENCE" THEN <<-1, eff + 1>>
    ELSE <<eff - 1, 1>>

\* DYNAMIC_STACK_EFFECTS[n](effect, arg, jump) for n in DynamicNames
DYNAMIC_STACK_EFFECTS(n, eff, arg, jump) ==
    IF n = "LIST_APPEND" THEN <<-PyToInt(arg.v), PyToInt(arg.v) - 1>>
    ELSE IF n = "FOR_ITER" THEN (IF jump = "True" THEN <<eff, 0>> ELSE <<-1, 2>>)
    ELSE IF n = "UNPACK_SEQUENCE" THEN <<-1, eff + 1>>
    ELSE <<eff - 1, 1>>

\* BaseInstr.pre_and_post_stack_effect(jump)
pre_and_post_stack_effect(self, jump) ==
    LET _effect == stack_effect(self, jump)
        n == self.name
    IN IF n \in DOMAIN STATIC_STACK_EFFECTS THEN STATIC_STACK_EFFECTS[n]
       ELSE IF n \in DynamicNames
       THEN DYNAMIC_STACK_EFFECTS(n, _effect, self.arg, jump)
       ELSE <<_effect, 0>>

\* no pre_and_post_stack_effect call answered
NoEffect == [jump |-> "None", net |-> 0, pair |-> <<0, 0>>]

\* BaseInstr.opcode setter: [self, err]
SetOpcode(self, o) ==
    IF ~isinstance_int(o) THEN [self |-> self, err |-> "TypeError"]
    ELSE IF ~(PyLe(PyInt(0), o.v) /\ PyLe(o.v, PyInt(255))
              /\ IsOpcode(PyToInt(o.v)))
    THEN [self |-> self, err |-> "ValueError"]
    ELSE _set(self, Str(opname(PyToInt(o.v))), self.arg)

ICall(o, e) == [op |-> o, err |-> e]

-----------------------------------------------------------------------------
(* Hand-built graphs: blocks drawn from a pool, jump operands resolved to  *)
(* the label of a block of the graph.                                      *)

Pool ==
    << <<Instr(1, "LOAD_CONST", IntArg(0)), Instr(1, "RETURN_VALUE", None)>>,
       <<Instr(2, "JUMP_ABSOLUTE", Label(0)), Instr(140, "NOP", None)>>,
       <<Instr(140, "JUMP_FORWARD", Label(0)), Instr(2, "RETURN_VALUE", None)>>,
       << >> >>

HasJump(tpl) == \E i \in 1..Len(tpl) : isLabel(tpl[i].arg)

Resolve(tpl, l) ==
    [i \in 1..Len(tpl) |->
        IF isLabel(tpl[i].arg) THEN [tpl[i] EXCEPT !.arg = Label(l)] ELSE tpl[i]]

CoConsts == <<0, 1>>

EmptyCode ==
    [co_code |-> << >>, co_lnotab |-> << >>, co_firstlineno |-> 1,
     co_consts |-> CoConsts]

NoOut == [ok |-> FALSE, code |-> EmptyCode]

Call(o, e, k) == [op |-> o, err |-> e, kind |-> k]

\* index in Flat(g) of the first instruction of the block that carries l
StartOfLabel(g, l) ==
    StartIndex(g, CHOOSE i \in 1..Len(g.blocks) : BlockLabel(g, i) = l)

PosOf(g) ==
    [l \in {BlockLabel(g, i) : i \in 1..Len(g.blocks)} |-> StartOfLabel(g, l)]

Init ==
    \E n \in 1..MaxBlocks :
      \E pick \in [1..n -> 1..Len(Pool)] :
        \E tg \in 1..n :
          /\ (\A i \in 1..n : ~HasJump(Pool[pick[i]])) => tg = 1
          /\ LET hp == [i \in FirstId..n |->
                          [label |-> i, instrs |-> Resolve(Pool[pick[i]], tg)]]
                 g == CodeInit([i \in 1..n |-> i], hp, n + 1)
             IN /\ blocks = g.blocks
                /\ heap = g.heap
                /\ block_map = g.block_map
                /\ nextId = g.nextId
                /\ labelPos = PosOf(g)
          /\ code_obj = EmptyCode
          /\ consts = code_obj.co_consts
          /\ out = NoOut
          /\ last = Call("init", FALSE, "")
          /\ nsplit = 0
          /\ ins = NoInstr
          /\ ilast = ICall("init", FALSE)
          /\ py311 = FALSE
          /\ effect = NoEffect

\* Hand-built graphs with operands wider than 16 bits and with explicit
\* EXTENDED_ARG instructions
WidePool ==
    << <<Instr(1, "EXTENDED_ARG", IntArg(1)), Instr(1, "LOAD_CONST", IntArg(0)),
         Instr(1, "RETURN_VALUE", None)>>,
       <<Instr(1, "LOAD_CONST", IntArg(65536)), Instr(1, "RETURN_VALUE", None)>>,
       <<Instr(1, "JUMP_ABSOLUTE", Label(0)), Instr(2, "NOP", None)>> >>

InitWide ==
    \E n \in 1..MaxBlocks :
      \E pick \in [1..n -> 1..Len(WidePool)] :
        \E tg \in 1..n :
          /\ (\A i \in 1..n : ~HasJump(WidePool[pick[i]])) => tg = 1
          /\ LET hp == [i \in FirstId..n |->
                          [label |-> i,
                           instrs |-> Resolve(WidePool[pick[i]], tg)]]
                 g == CodeInit([i \in 1..n |-> i], hp, n + 1)
             IN /\ blocks = g.blocks
                /\ heap = g.heap
                /\ block_map = g.block_map
                /\ nextId = g.nextId
                /\ labelPos = PosOf(g)
          /\ code_obj = EmptyCode
          /\ consts = code_obj.co_consts
          /\ out = NoOut
          /\ last = Call("init", FALSE, "")
          /\ nsplit = 0
          /\ ins = NoInstr
          /\ ilast = ICall("init", FALSE)
          /\ py311 = FALSE
          /\ effect = NoEffect

-----------------------------------------------------------------------------
(* Actions *)

\* the calls made: every block by position and by Label with every index
\* from -1 to the length of the block, and references to no block (a
\* position before or behind the list, a Label of no block)
BlockRefs ==
    {PosRef(n) : n \in 0..(Len(blocks) - 1)}
    \cup {Label(l) : l \in DOMAIN block_map}

BadRefs == {PosRef(-1), PosRef(Len(blocks)), Label(0)}

RECURSIVE MaxLen(_, _)
MaxLen(g, p) ==
    IF p > Len(g.blocks) THEN 0
    ELSE LET m == MaxLen(g, p + 1)
             n == Len(BlockInstrs(g, p))
         IN IF n > m THEN n ELSE m

\* the Block object a reference names
Named(g, ref) ==
    IF isLabel(ref) THEN g.block_map[ref.v] ELSE g.blocks[ref.v + 1]

\* what kind of call create_label(ref, index) is, from its arguments
CallKind(ref, index) ==
    IF ref \in BadRefs THEN "noblock"
    ELSE IF index = 0 THEN "zero"
    ELSE IF 0 < index /\ index < Len(heap[Named(CurGraph, ref)].instrs)
    THEN "inside"
    ELSE "outside"

Calls ==
    UNION {{<<ref, index>> :
              index \in -1..Len(heap[Named(CurGraph, ref)].instrs)} :
           ref \in BlockRefs}
    \cup (BadRefs \X {0, 1})

CreateLabel ==
    \E c \in Calls :
      \E r \in {create_label(CurGraph, c[1], c[2])} :
         /\ r.g.nextId = nextId \/ nsplit < MaxSplits
         /\ blocks' = r.g.blocks
         /\ heap' = r.g.heap
         /\ block_map' = r.g.block_map
         /\ nextId' = r.g.nextId
         /\ nsplit' = IF r.g.nextId = nextId THEN nsplit ELSE nsplit + 1
         /\ last' = Call("create_label", r.err # "none", CallKind(c[1], c[2]))
         /\ labelPos' =
              IF r.err = "none" /\ r.ret \notin DOMAIN labelPos
              THEN [l \in DOMAIN labelPos \cup {r.ret} |->
                      IF l = r.ret THEN StartOfLabel(r.g, r.ret) ELSE labelPos[l]]
              ELSE labelPos
         /\ UNCHANGED <<consts, code_obj, out, instrVars>>

Assemble ==
    \E r \in {assemble(CurGraph, code_obj, consts)} :
       /\ blocks' = r.g.blocks
       /\ heap' = r.g.heap
       /\ block_map' = r.g.block_map
       /\ nextId' = r.g.nextId
       /\ consts' = r.consts
       /\ out' = IF r.err = "none" THEN [ok |-> TRUE, code |-> r.code] ELSE out
       /\ last' = Call("assemble", r.err # "none", "")
       /\ UNCHANGED <<code_obj, nsplit, labelPos, instrVars>>

\* Code.disassemble(out) replaces the Code object under edit: the Block and
\* Label objects of the previous graph are no longer referenced, and the
\* objects of the new graph are numbered from FirstId again.
Disassemble ==
    /\ out.ok
    /\ \E r \in {disassemble(out.code, FirstId)} :
          /\ last' = Call("disassemble", r.err # "none", "")
          /\ IF r.err = "none"
             THEN /\ blocks' = r.g.blocks
                  /\ heap' = r.g.heap
                  /\ block_map' = r.g.block_map
                  /\ nextId' = r.g.nextId
                  /\ consts' = r.consts
                  /\ code_obj' = out.code
                  /\ nsplit' = 0
                  /\ labelPos' = PosOf(r.g)
             ELSE UNCHANGED <<blocks, heap, block_map, nextId, consts,
                              code_obj, nsplit, labelPos>>
          /\ UNCHANGED <<out, instrVars>>

Next == CreateLabel \/ Assemble \/ Disassemble

Spec == Init /\ [][Next]_vars

SpecWide == InitWide /\ [][Next]_vars

-----------------------------------------------------------------------------
(* Instr objects under edit *)

\* the values tried as names, operands, opcodes and line numbers
NameValues ==
    {Str(n) : n \in OpNames} \cup {Str("FOO"), NotStr}

ArgValues ==
    {UNSET, Val("int", -1), Val("int", 0), Val("int", 2),
     Val("int", 2147483647),
     TooBig, Val("bool", 1), Val("float", 1), Val("str", 0),
     Val("Label", 0), Val("BasicBlock", 0), Val("CellVar", 0),
     Val("FreeVar", 0), Val("Compare", 2), Val("tuple_bool_str", 0),
     Val("tuple_str_str", 0)}

OpcodeValues ==
    {Val("int", o) : o \in {-1, 0, 9, 100, 110, 131, 144, 255, 256}}
    \cup {Val("str", 0)}

LinenoValues == {UNSET, PyNone, Val("int", 0), Val("int", 1), Val("str", 0)}

InitInstr ==
    /\ blocks = << >>
    /\ heap = << >>
    /\ block_map = << >>
    /\ nextId = FirstId
    /\ labelPos = << >>
    /\ code_obj = EmptyCode
    /\ consts = code_obj.co_consts
    /\ out = NoOut
    /\ last = Call("init", FALSE, "")
    /\ nsplit = 0
    /\ ins = NoInstr
    /\ ilast = ICall("init", FALSE)
    /\ py311 \in BOOLEAN
    /\ effect = NoEffect

Done(o, r) ==
    /\ ins' = r.self
    /\ ilast' = ICall(o, r.err # "none")
    /\ effect' = NoEffect
    /\ UNCHANGED <<py311, graphVars>>

\* Instr(name, arg, lineno=lineno)
Construct ==
    \E name \in NameValues, arg \in ArgValues, lineno \in LinenoValues :
      \E r \in {InstrInit(name, arg, lineno)} :
        /\ ilast' = ICall("init", r.err # "none")
        /\ ins' = IF r.err = "none" THEN r.self ELSE ins
        /\ effect' = NoEffect
        /\ UNCHANGED <<py311, graphVars>>

\* instr.set(name, arg)
Set ==
    /\ ins.exists
    /\ \E name \in NameValues, arg \in ArgValues :
         Done("set", _set(ins, name, arg))

\* instr.name = name
SetName ==
    /\ ins.exists
    /\ \E name \in NameValues : Done("name", _set(ins, name, ins.arg))

\* instr.opcode = op
SetOpcodeAction ==
    /\ ins.exists
    /\ \E o \in OpcodeValues : Done("opcode", SetOpcode(ins, o))

\* instr.arg = arg
SetArg ==
    /\ ins.exists
    /\ \E arg \in ArgValues :
         Done("arg", _set(ins, Str(ins.name), arg))

\* Instr(name, arg, location=InstrLocation(1, 2, 0, 3))
ConstructLocation ==
    \E name \in NameValues, arg \in ArgValues :
      \E r \in {InstrInitLocation(name, arg, DetailedLocation)} :
        /\ ilast' = ICall("init", r.err # "none")
        /\ ins' = IF r.err = "none" THEN r.self ELSE ins
        /\ effect' = NoEffect
        /\ UNCHANGED <<py311, graphVars>>

\* instr.pre_and_post_stack_effect(jump=jump)
PreAndPostStackEffect ==
    /\ ins.exists
    /\ \E jump \in JumpValues :
         /\ effect' = [jump |-> jump, net |-> stack_effect(ins, jump),
                       pair |-> pre_and_post_stack_effect(ins, jump)]
         /\ ilast' = ICall("pre_and_post_stack_effect", FALSE)
         /\ UNCHANGED <<ins, py311, graphVars>>

\* instr.lineno = lineno
SetLineno ==
    /\ ins.exists
    /\ \E lineno \in LinenoValues : Done("lineno", SetLinenoOf(ins, lineno))

NextInstr ==
    \/ Construct
    \/ ConstructLocation
    \/ Set
    \/ SetName
    \/ SetOpcodeAction
    \/ SetArg
    \/ SetLineno
    \/ PreAndPostStackEffect

SpecInstr == InitInstr /\ [][NextInstr]_vars

-----------------------------------------------------------------------------
(* Properties of create_label *)

PosOfId(g, id) == CHOOSE p \in 1..Len(g.blocks) : g.blocks[p] = id

Labels(g) == {BlockLabel(g, p) : p \in 1..Len(g.blocks)}

\* what a split of the block object id at index must have done to g
SplitDone(g, id, index, r) ==
    LET p == PosOfId(g, id)
        old == g.heap[id].instrs
    IN /\ r.err = "none"
       /\ Len(r.g.blocks) = Len(g.blocks) + 1
       /\ r.g.blocks[p] = id
       /\ r.g.heap[id].label = g.heap[id].label
       /\ r.g.heap[id].instrs = SubSeq(old, 1, index)
       /\ BlockInstrs(r.g, p + 1) = SubSeq(old, index + 1, Len(old))
       /\ BlockInstrs(r.g, p) \o BlockInstrs(r.g, p + 1) = old
       /\ r.ret = BlockLabel(r.g, p + 1)
       /\ r.ret \notin Labels(g)
       /\ r.g.block_map[r.ret] = r.g.blocks[p + 1]
       /\ \A q \in 1..Len(g.blocks) :
            q # p =>
              LET q2 == IF q < p THEN q ELSE q + 1
              IN /\ r.g.blocks[q2] = g.blocks[q]
                 /\ r.g.heap[g.blocks[q]] = g.heap[g.blocks[q]]

\* C1: for any block b, given by position or by Label, and any index with
\* 0 < index < len(b), create_label(b, index) truncates b to its first index
\* instructions, puts b[index:] in one new block right after b, returns the
\* new block's Label, keeps b's Label on b and leaves every other block alone.
C1_SplitBlock ==
    \A ref \in BlockRefs :
      LET id == Named(CurGraph, ref)
      IN \A index \in 1..(Len(heap[id].instrs) - 1) :
           SplitDone(CurGraph, id, index, create_label(CurGraph, ref, index))

\* C2: create_label(b, 0) returns the Label of b and leaves the graph as it
\* was; repeating the call returns the same Label.
C2_IndexZero ==
    \A ref \in BlockRefs :
      LET id == Named(CurGraph, ref)
          r == create_label(CurGraph, ref, 0)
      IN /\ r.err = "none"
         /\ r.ret = heap[id].label
         /\ r.g = CurGraph
         /\ create_label(r.g, ref, 0) = r

\* the indexes tried on every block: one before the block, those of the block
\* and two behind it
TriedIndexes == -1..(MaxLen(CurGraph, 1) + 1)

FailsUnchanged(r) == r.err # "none" /\ r.g = CurGraph

\* C3 as stated: create_label(b, index) with index < 0 or index >= len(b)
\* raises and changes nothing.
C3_AsStated ==
    \A ref \in BlockRefs, index \in TriedIndexes :
      (index < 0 \/ index >= Len(heap[Named(CurGraph, ref)].instrs))
        => FailsUnchanged(create_label(CurGraph, ref, index))

\* C3 amended: create_label(b, index) with index < 0, or with index >= len(b)
\* and index # 0, raises and changes nothing (index 0 on an empty block
\* returns the block's Label).
C3_InvalidIndexFails ==
    \A ref \in BlockRefs, index \in TriedIndexes :
      (index < 0 \/ (index >= Len(heap[Named(CurGraph, ref)].instrs) /\ index # 0))
        => FailsUnchanged(create_label(CurGraph, ref, index))

\* a call on a block of the graph with an index outside it has been rejected
C3_Witness ==
    /\ last.op = "create_label"
    /\ last.kind = "outside"
    /\ last.err

-----------------------------------------------------------------------------
(* Properties of assemble and disassemble *)

\* byte offset of the k-th instruction of a flat instruction sequence
ByteOffset(fl, k) == SizeSum(SubSeq(fl, 1, k - 1))

\* the 16-bit little-endian operand of the instruction encoded at offset off
OperandAt(co_code, off) == co_code[off + 2] + 256 * co_code[off + 3]

HasLabelOperand(g) == \E k \in 1..Len(Flat(g)) : isLabel(Flat(g)[k].arg)

\* C4: disassembling a stream obtained by assembling a graph and assembling
\* the result again gives the same instruction stream and the same line table.
C4_RoundTrip ==
    out.ok =>
      LET d == disassemble(out.code, FirstId)
      IN d.err = "none" =>
           LET a == assemble(d.g, out.code, d.consts)
           IN /\ a.err = "none"
              /\ a.code.co_code = out.code.co_code
              /\ a.code.co_lnotab = out.code.co_lnotab

\* the example of the specification: a 3-byte relative jump at offset 0 whose
\* target is the block at offset 40
ExampleGraph ==
    CodeInit(<<1, 2>>,
             [id \in 1..2 |->
                IF id = 1
                THEN [label |-> 1,
                      instrs |-> [k \in 1..38 |->
                                    IF k = 1 THEN Instr(1, "JUMP_FORWARD", Label(2))
                                    ELSE Instr(1, "NOP", None)]]
                ELSE [label |-> 2, instrs |-> <<Instr(1, "RETURN_VALUE", None)>>]],
             3)

ExampleOperand ==
    LET a == assemble(ExampleGraph, EmptyCode, CoConsts)
    IN /\ a.err = "none"
       /\ Len(a.code.co_code) = 41
       /\ OperandAt(a.code.co_code, 0) = 37

\* C5: in the assembled stream every jump whose operand was a Label is encoded
\* with the offset of the first instruction of the Label's block (absolute
\* jump) or with that offset minus (offset of the jump + size of the jump)
\* (relative jump); a 3-byte relative jump at 0 to offset 40 is encoded 37.
C5_JumpOperands ==
    /\ ExampleOperand
    /\ LET a == assemble(CurGraph, code_obj, consts)
           fl == Flat(CurGraph)
       IN a.err = "none" =>
            \A k \in 1..Len(fl) :
              isLabel(fl[k].arg) =>
                LET off == ByteOffset(fl, k)
                    p == CHOOSE p \in 1..Len(blocks) :
                            BlockLabel(CurGraph, p) = fl[k].arg.v
                    tgt == ByteOffset(Flat(CurGraph), StartIndex(CurGraph, p) + 1)
                IN /\ a.code.co_code[off + 1] = opmap[fl[k].name]
                   /\ OperandAt(a.code.co_code, off) =
                        IF fl[k].name = "JUMP_FORWARD"
                        THEN tgt - (off + size(fl[k]))
                        ELSE tgt

\* assemble() has returned a stream for a graph with a relative and an
\* absolute jump
C5_Witness ==
    /\ last.op = "assemble"
    /\ ~last.err
    /\ out.code = assemble(CurGraph, code_obj, consts).code
    /\ \E k \in 1..Len(Flat(CurGraph)) :
         Flat(CurGraph)[k].name = "JUMP_FORWARD" /\ isLabel(Flat(CurGraph)[k].arg)
    /\ \E k \in 1..Len(Flat(CurGraph)) :
         Flat(CurGraph)[k].name = "JUMP_ABSOLUTE" /\ isLabel(Flat(CurGraph)[k].arg)

\* what the graph g disassembled from the stream co_code must be
DisassembledOk(co_code, g) ==
    LET fl == Flat(g)
        off(k) == ByteOffset(fl, k)
        isJ(k) == co_code[off(k) + 1] \in hasjrel \cup hasjabs
        target(k) == IF co_code[off(k) + 1] \in hasjrel
                     THEN off(k) + 3 + OperandAt(co_code, off(k))
                     ELSE OperandAt(co_code, off(k))
        start(p) == ByteOffset(fl, StartIndex(g, p) + 1)
    IN /\ SizeSum(fl) = Len(co_code)
       /\ \A k \in 1..Len(fl) :
            /\ co_code[off(k) + 1] = opmap[fl[k].name]
            /\ ~isJ(k) =>
                 fl[k].arg = IF co_code[off(k) + 1] >= HAVE_ARGUMENT
                             THEN IntArg(OperandAt(co_code, off(k)))
                             ELSE None
       /\ \A p \in 1..Len(g.blocks) : BlockInstrs(g, p) # << >>
       /\ {start(p) : p \in 1..Len(g.blocks)}
            = {0} \cup {target(k) : k \in {j \in 1..Len(fl) : isJ(j)}}
       /\ \A p, q \in 1..Len(g.blocks) :
            p # q => BlockLabel(g, p) # BlockLabel(g, q)
       /\ \A k \in 1..Len(fl) :
            isJ(k) =>
              /\ isLabel(fl[k].arg)
              /\ fl[k].arg.v \in DOMAIN g.block_map
              /\ \E p \in 1..Len(g.blocks) :
                   /\ g.blocks[p] = g.block_map[fl[k].arg.v]
                   /\ BlockLabel(g, p) = fl[k].arg.v
                   /\ start(p) = target(k)

\* C6: disassembling a well-formed stream gives blocks that concatenate to the
\* decoded instructions, a block starting at offset 0 and at every resolved
\* jump target and nowhere else, each with its own Label; every jump operand
\* is the Label, resolvable in the index, of the block that starts at the
\* jump's resolved target.
C6_Disassembled ==
    out.ok =>
      LET d == disassemble(out.code, FirstId)
      IN d.err = "none" => DisassembledOk(out.code.co_code, d.g)

\* disassemble() has returned a graph of several blocks
C6_Witness ==
    /\ last.op = "disassemble"
    /\ ~last.err
    /\ CurGraph = disassemble(code_obj, FirstId).g
    /\ Len(blocks) >= 2
    /\ HasLabelOperand(CurGraph)

\* C7: after any sequence of create_label calls, successful or failing, every
\* Label that is a jump operand and every Label returned so far is a key of
\* the index and names exactly one block of the list; the index has exactly
\* the Labels of the blocks of the list, no two blocks share a Label, and a
\* Label names the block that begins at the instruction it began at before.
C7_LabelsResolve ==
    LET g == CurGraph
        n == Len(blocks)
    IN /\ \A k \in 1..Len(Flat(g)) :
            isLabel(Flat(g)[k].arg) => Flat(g)[k].arg.v \in DOMAIN block_map
       /\ DOMAIN block_map = Labels(g)
       /\ \A p, q \in 1..n : p # q => BlockLabel(g, p) # BlockLabel(g, q)
       /\ \A l \in DOMAIN labelPos :
            /\ l \in DOMAIN block_map
            /\ Cardinality({p \in 1..n : blocks[p] = block_map[l]}) = 1
            /\ heap[block_map[l]].label = l
            /\ StartIndex(g, PosOfId(g, block_map[l])) = labelPos[l]

\* two blocks have been split off, the last call being a successful split
C7_Witness ==
    /\ last.op = "create_label"
    /\ last.kind = "inside"
    /\ ~last.err
    /\ nsplit = 2
    /\ HasLabelOperand(CurGraph)

\* Instr.is_jump
is_jump(instr) == op(instr) \in hasjrel \/ op(instr) \in hasjabs

\* BaseInstr.is_uncond_jump
is_uncond_jump(name) ==
    name \in {"JUMP_FORWARD", "JUMP_ABSOLUTE", "JUMP_BACKWARD",
              "JUMP_BACKWARD_NO_INTERRUPT"}

\* BaseInstr.is_final
is_final(name) ==
    IF name \in {"RETURN_VALUE", "RAISE_VARARGS", "RERAISE", "BREAK_LOOP",
                 "CONTINUE_LOOP"}
    THEN TRUE
    ELSE is_uncond_jump(name)

\* C8: in a graph produced by the disassembler no block has a jump or a
\* terminal instruction at a position other than its last.
C8_JumpsEndBlocks ==
    (last.op = "disassemble" /\ ~last.err) =>
      \A p \in 1..Len(blocks) :
        \A i \in 1..(Len(BlockInstrs(CurGraph, p)) - 1) :
          LET instr == BlockInstrs(CurGraph, p)[i]
          IN ~is_jump(instr) /\ ~is_final(instr.name)

\* C9: assemble() leaves the graph as it was, whether it returns or raises:
\* block order, instruction lists, operands (a Label operand is still a
\* Label), label index and literal pool.
C9_AssembleFrame ==
    LET a == assemble(CurGraph, code_obj, consts)
    IN /\ a.g = CurGraph
       /\ a.consts = consts

\* assemble() has raised after visiting a jump with a Label operand
C9_Witness ==
    /\ last.op = "assemble"
    /\ last.err
    /\ isLabel(Flat(CurGraph)[1].arg)

-----------------------------------------------------------------------------
(* Properties of the high-level Instr *)

\* isinstance(x, int) for an operand that is present
IsInteger(arg) == arg.t \in {"int", "bool", "Compare"}

\* operand validity of (name, opcode, arg)
ValidOperand(name, opcode, arg) ==
    /\ name \in OpNames
    /\ opcode = opmap[name]
    /\ (arg = UNSET) <=> (opcode < HAVE_ARGUMENT)
    /\ IF opcode \in hasjrel \cup hasjabs
       THEN arg.t \in {"Label", "BasicBlock"}
       ELSE IF opcode \in hasfree THEN arg.t \in {"CellVar", "FreeVar"}
       ELSE IF opcode \in haslocal \cup hasname
       THEN arg.t = "str" \/ (name = "LOAD_GLOBAL" /\ arg.t = "tuple_bool_str")
       ELSE IF opcode \in hasconst THEN arg.t \notin {"Label", "BasicBlock"}
       ELSE IF opcode \in hascompare THEN arg.t = "Compare"
       ELSE IF opcode >= HAVE_ARGUMENT
       THEN /\ IsInteger(arg)
            /\ PyLe(PyInt(0), arg.v)
            /\ PyLe(arg.v, PyInt(2147483647))
       ELSE TRUE

\* C10: every Instr that exists, after construction and after any successful
\* set / name / opcode / arg edit, satisfies operand validity (opcode is the
\* code of name; operand absent iff the opcode takes none; jump: Label or
\* BasicBlock; free/cell: CellVar or FreeVar; local/name: str, or a (bool,
\* str) pair for LOAD_GLOBAL; literal pool: no Label or BasicBlock; compare:
\* Compare; any other: an integer in 0..2147483647), and constructing an
\* Instr with an operand that violates it raises.
C10_OperandValid ==
    /\ ins.exists => ValidOperand(ins.name, ins.opcode, ins.arg)
    /\ \A n \in OpNames, arg \in ArgValues, lineno \in LinenoValues :
         ~ValidOperand(n, opmap[n], arg)
           => InstrInit(Str(n), arg, lineno).err # "none"

\* an edit has stored the largest integer operand
C10_Witness ==
    /\ ins.exists
    /\ ilast.op = "arg"
    /\ ~ilast.err
    /\ ins.name = "CALL_FUNCTION"
    /\ ins.arg = Val("int", 2147483647)

\* the in-place edits of an Instr
Edits == {"set", "name", "opcode", "arg", "lineno"}

\* C11: when an in-place edit of an Instr (set, or assigning name, opcode,
\* arg or lineno) raises, the instruction's name, opcode, operand and
\* location are what they were before the call.
C11_FailFast ==
    [][(ilast'.op \in Edits /\ ilast'.err) => ins' = ins]_vars

\* a lineno edit was rejected
\* on an instruction with detailed location (RuntimeError)
C11_Witness ==
    /\ ins.exists
    /\ ilast.op = "lineno"
    /\ ilast.err
    /\ ins.location = DetailedLocation

-----------------------------------------------------------------------------
(* Properties of operands wider than 16 bits *)

\* the instructions of g with an integer operand above 65535
WideOperands(g) ==
    {k \in 1..Len(Flat(g)) :
        Flat(g)[k].arg.k = "int" /\ Flat(g)[k].arg.v > 65535}

\* the six bytes of an instruction with operand n behind its EXTENDED_ARG
Prefixed(o, n) ==
    pack_BH(opmap["EXTENDED_ARG"], n \div 65536) \o pack_BH(o, n % 65536)

\* C12: assemble() of a graph with an integer operand above 65535 succeeds,
\* and the code it returns holds that instruction as an EXTENDED_ARG prefix
\* with the high bits immediately followed by the instruction with the low
\* 16 bits.
C12_ExtendedOperands ==
    (last.op = "assemble" /\ WideOperands(CurGraph) # {}) =>
       /\ ~last.err
       /\ \A k \in WideOperands(CurGraph) :
             \E i \in 0..(Len(out.code.co_code) - 6) :
                SubSeq(out.code.co_code, i + 1, i + 6)
                   = Prefixed(op(Flat(CurGraph)[k]), Flat(CurGraph)[k].arg.v)

\* the (name, operand) pairs of a byte string with every run of EXTENDED_ARG
\* prefixes shifted into the operand of the instruction that follows;
\* ext is the value of the prefixes read so far
RECURSIVE Merged(_, _, _)
Merged(code, offset, ext) ==
    IF offset >= Len(code) THEN << >>
    ELSE LET o == code[offset + 1]
         IN IF o < HAVE_ARGUMENT
            THEN <<[name |-> opname(o), arg |-> None]>>
                 \o Merged(code, offset + 1, 0)
            ELSE LET n == ext * 65536 + code[offset + 2] + code[offset + 3] * 256
                 IN IF o = opmap["EXTENDED_ARG"]
                    THEN Merged(code, offset + 3, n)
                    ELSE <<[name |-> opname(o), arg |-> IntArg(n)]>>
                         \o Merged(code, offset + 3, 0)

\* C13: no instruction of a disassembled graph is an EXTENDED_ARG; the
\* instructions are those of the byte string with every run of prefixes
\* merged into the operand of the instruction that follows.
C13_NoExtendedArg ==
    (last.op = "disassemble" /\ ~last.err) =>
       LET fl == Flat(CurGraph)
           mg == Merged(code_obj.co_code, 0, 0)
       IN /\ \A k \in 1..Len(fl) : fl[k].name # "EXTENDED_ARG"
          /\ Len(fl) = Len(mg)
          /\ \A k \in 1..Len(fl) :
                /\ fl[k].name = mg[k].name
                /\ ~isLabel(fl[k].arg) => fl[k].arg = mg[k].arg

-----------------------------------------------------------------------------
(* Properties of the line table *)

\* the byte offset and the line of every instruction of g, in order
OffsetLines(g) ==
    [k \in 1..Len(Flat(g)) |-> <<ByteOffset(Flat(g), k), Flat(g)[k].lineno>>]

\* C14: decoding the line table of an assembled graph from the first line
\* number gives every instruction the line it carried at assembly time, and
\* the table associates no offset with a line that was not given.
C14_LineTableRoundTrip ==
    (last.op = "assemble" /\ ~last.err) =>
       LET given == OffsetLines(CurGraph)
           starts == LineStarts(out.code)
           dec == Decode(out.code.co_code, starts, 0, out.code.co_firstlineno,
                         [instructions |-> << >>, block_starts |-> {},
                          err |-> "none"])
       IN /\ dec.err = "none"
          /\ Len(dec.instructions) = Len(given)
          /\ \A k \in 1..Len(given) : dec.instructions[k].lineno = given[k][2]
          /\ \A a \in DOMAIN starts :
                \E k \in 1..Len(given) : given[k] = <<a, starts[a]>>

\* the (offset delta, line delta) pairs of a string of line-table bytes
Pairs(bytes) ==
    [i \in 1..(Len(bytes) \div 2) |->
        <<bytes[2 * i - 1], SignedByte(bytes[2 * i])>>]

RECURSIVE SumOf(_, _)
SumOf(ps, c) ==
    IF ps = << >> THEN 0 ELSE Head(ps)[c] + SumOf(Tail(ps), c)

\* what the entries emitted for one transition (doff, dlineno) must be
EntriesOk(doff, dlineno) ==
    LET ps == Pairs(LnotabEntry(doff, dlineno))
    IN /\ Len(LnotabEntry(doff, dlineno)) = 2 * Len(ps)
       /\ \A i \in 1..Len(ps) :
             /\ 0 <= ps[i][1] /\ ps[i][1] <= 255
             /\ -127 <= ps[i][2] /\ ps[i][2] <= 126
       /\ (doff = 0 /\ dlineno = 0) => ps = << >>
       /\ \A i \in 1..(Len(ps) - 1) :
             /\ ps[i][1] = 0
             /\ ps[i][2] = IF dlineno > 0 THEN 126 ELSE -127
       /\ SumOf(ps, 1) = doff
       /\ SumOf(ps, 2) = dlineno

\* the linenos list of assemble() for g: (offset, lineno) per instruction
Linenos(g) ==
    AsmLoop(Entries(g, 1, 1), 1, 0, Targets(g),
            [code_str |-> << >>, linenos |-> << >>, touched |-> << >>,
             err |-> "none"]).linenos

\* C16: for every transition of the line table of an assembled graph, the
\* emitted entries have offset deltas in 0..255 and line deltas in -127..126,
\* a (0, 0) transition emits nothing, every filler is (0, 126) or (0, -127),
\* and the emitted deltas add up to the deltas of the transition.
C16_LineTableEntries ==
    (last.op = "assemble" /\ ~last.err) =>
       LET ls == Linenos(CurGraph)
           prev(k) == IF k = 1 THEN <<0, code_obj.co_firstlineno>> ELSE ls[k - 1]
       IN /\ out.code.co_lnotab = Lnotab(ls, 1, 0, code_obj.co_firstlineno)
          /\ \A k \in 1..Len(ls) :
                EntriesOk(ls[k][1] - prev(k)[1], ls[k][2] - prev(k)[2])

\* a table was emitted with a filler in each direction
C16_Witness ==
    /\ last.op = "assemble"
    /\ ~last.err
    /\ \E i, j \in 1..Len(Pairs(out.code.co_lnotab)) :
          /\ Pairs(out.code.co_lnotab)[i] = <<0, 126>>
          /\ Pairs(out.code.co_lnotab)[j] = <<0, -127>>

-----------------------------------------------------------------------------
(* Properties of splitting under assemble *)

\* the Block objects of g with no instruction
EmptyBlocks(g) == {id \in DOMAIN g.heap : g.heap[id].instrs = << >>}

\* what assemble() returns for g: the error, or the stream and the table
Assembled(g) ==
    LET a == assemble(g, code_obj, consts)
    IN IF a.err # "none" THEN <<a.err>>
       ELSE <<a.err, a.code.co_code, a.code.co_lnotab>>

\* C17: in every graph reached by any sequence of create_label calls, a
\* successful create_label call leaves the result of assemble() (the
\* instruction stream and the line table, or the error raised) as it was
\* before the call, and gives the graph no empty block it did not have.
C17_SplitInvisible ==
    \A c \in Calls :
       \A r \in {create_label(CurGraph, c[1], c[2])} :
          r.err = "none" =>
             \/ r.g = CurGraph
             \/ /\ Assembled(r.g) = Assembled(CurGraph)
                /\ EmptyBlocks(r.g) = EmptyBlocks(CurGraph)

\* two blocks were split off and the graph assembles
C17_Witness ==
    /\ last.op = "create_label"
    /\ ~last.err
    /\ nsplit = 2
    /\ Len(Assembled(CurGraph)) = 3

-----------------------------------------------------------------------------
(* Properties of the stack effects *)

\* C15: the pair returned by pre_and_post_stack_effect(jump) is the pair of
\* the static table when the name is in it; otherwise (-1, net + 1) for the
\* unpack opcode, (-N, N - 1) for the append opcode with operand N, (-1, 2)
\* for the for-each opcode when the branch is not taken and (net, 0) when it
\* is; otherwise (net, 0), net being stack_effect(jump). Outside the static
\* table pop + push = net.
C15_PreAndPost ==
    ilast.op = "pre_and_post_stack_effect" =>
       LET n == ins.name
           pair == effect.pair
           net == effect.net
       IN /\ n = "COMPARE_OP" => pair = <<-2, 1>>
          /\ n = "DUP_TOP" => pair = <<-1, 2>>
          /\ n = "UNPACK_SEQUENCE" => pair = <<-1, net + 1>>
          /\ n = "LIST_APPEND" =>
                pair = <<-PyToInt(ins.arg.v), PyToInt(ins.arg.v) - 1>>
          /\ (n = "FOR_ITER" /\ effect.jump = "False") => pair = <<-1, 2>>
          /\ (n = "FOR_ITER" /\ effect.jump = "True") => pair = <<net, 0>>
          /\ n \notin {"COMPARE_OP", "DUP_TOP", "UNPACK_SEQUENCE",
                       "LIST_APPEND", "FOR_ITER", "CALL_FUNCTION"}
                => pair = <<net, 0>>
          /\ n \notin {"COMPARE_OP", "DUP_TOP"} => pair[1] + pair[2] = net

\* the effect of an append with operand 2 was asked for
C15_Witness ==
    /\ ilast.op = "pre_and_post_stack_effect"
    /\ ins.name = "LIST_APPEND"
    /\ ins.arg = Val("int", 2)
    /\ effect.pair = <<-2, 1>>

====
